---------------------------- MODULE Spec2Model ----------------------------
(***************************************************************************)
(* A model of the bounded breadth-first crawler of src/lib/crawler.ts.     *)
(*                                                                         *)
(* The state is the three private fields of a Crawler (seen, pages, queue),*)
(* its two constructor parameters (maxDepth, maxPages) and the position of *)
(* the one crawl(startUrl) invocation that seed() runs on it.  The web the *)
(* crawler talks to is the environment: the response of a fetch is chosen  *)
(* when the fetch resolves and remembered in `web`.                        *)
(***************************************************************************)
EXTENDS Integers, Sequences, FiniteSets, TLC

(***************************************************************************)
(* Bounds of the model.                                                    *)
(***************************************************************************)
\* maxDepth ranges over 0..MaxDepthBound
MaxDepthBound == 2
\* the total number of anchor elements the web serves during one crawl
MaxAnchors == 3

(***************************************************************************)
(* Addresses.  Urls are the absolute addresses that exist; Invalid is a    *)
(* start string that is no absolute address (fetch rejects it).            *)
(***************************************************************************)
RootH == "http://h/"
PageH == "http://h/p"
RootG == "http://g/"
PageG == "http://g/q"
Urls == {RootH, PageH, RootG, PageG}
Invalid == "not-a-url"
StartUrls == {RootH, Invalid}

\* maxPages ranges over 0..MaxPagesBound: a limit above the number of
\* addresses is never reached
MaxPagesBound == Cardinality(Urls)

\* href attributes an anchor can carry: an absolute address, the empty
\* string, a relative reference to the site root, an unresolvable address
EmptyHref == ""
RootRef == "/"
BadHref == "http://"
Hrefs == Urls \cup {EmptyHref, RootRef, BadHref}

\* the text a page body converts to
Texts == {"", "text"}

\* raw markup: what the converter makes of it, and its a[href] elements in
\* document order
EmptyHtml == [text |-> "", hrefs |-> <<>>]

HrefLists(n) == UNION {[1..m -> Hrefs] : m \in 0..n}

\* the bodies a server can send: nothing at all, or some text with anchors
Htmls(n) == {EmptyHtml} \cup [text : Texts \ {""}, hrefs : HrefLists(n)]

\* outcome of fetch(url) followed by response.text(): fetch raises for a
\* string that is no address; for an address it raises (network error,
\* abort) or resolves with a response of any status, whose body is read
NotFetched == [kind |-> "none", html |-> EmptyHtml]
Thrown == [kind |-> "throw", html |-> EmptyHtml]

Responses(u, n) ==
    IF u \notin Urls
    THEN {Thrown}
    ELSE {Thrown} \cup [kind : {"ok", "non2xx"}, html : Htmls(n)]

\* what `web` remembers of a response: whether a body was read, and the body
Served(resp) ==
    [kind |-> IF resp.kind = "throw" THEN "throw" ELSE "body", html |-> resp.html]

VARIABLES
    maxDepth,   \* constructor parameter
    maxPages,   \* constructor parameter
    seen,       \* Crawler.seen
    pages,      \* Crawler.pages
    queue,      \* Crawler.queue
    startUrl,   \* argument of crawl
    pc,         \* position of the crawl invocation
    url,        \* local const url of the loop body
    depth,      \* local const depth of the loop body
    web,        \* the bodies served so far, by address
    status,     \* const response of fetchPage: how the last fetch settled
    pageDepth,  \* history: the depth at which each page record was dequeued
    fetchLog,   \* history: the addresses fetch was called with, in order
    sharing,    \* a second crawl invocation: "none", or on the "same" Crawler,
                \* or on a "separate" one
    active,     \* the invocation the variables above belong to: 1 or 2
    other,      \* the invocation that is not running: its locals, and the
                \* fields of its Crawler when that is a separate one
    handler,    \* position of the POST handler and of seed: "none" without
                \* a request
    splitterOptions,  \* parameter of seed, from the time seed reads it
    splitter,   \* the parameters the splitter was constructed with
    documents,  \* const documents of seed
    pageIndex,  \* the pages the for loop of seed has gone through
    response    \* the body the handler answered with

vars == <<maxDepth, maxPages, seen, pages, queue, startUrl, pc, url, depth,
          web, status, pageDepth, fetchLog, sharing, active, other,
          handler, splitterOptions, splitter, documents, pageIndex, response>>

\* the state of the POST handler and of seed
seedVars == <<handler, splitterOptions, splitter, documents, pageIndex,
              response>>

config == <<maxDepth, maxPages>>

\* what a step of one crawl invocation leaves alone
outside == <<sharing, active, other, seedVars>>

(***************************************************************************)
(* Pure parts of the Crawler.                                              *)
(***************************************************************************)
\* isTooDeep off by one: an entry one level below the limit passes
IsTooDeepOffByOne(d) == d > maxDepth + 1

\* private isTooDeep(depth)
IsTooDeep(d) == d > maxDepth

\* isAlreadySeen that never finds the address
IsAlreadySeenNever(u) == FALSE

\* private isAlreadySeen(url)
IsAlreadySeen(u) == u \in seen

\* shouldContinueCrawling without the page limit
ShouldContinueNoLimit == Len(queue) > 0

\* shouldContinueCrawling stopping one record short of the limit
ShouldContinueShort == Len(queue) > 0 /\ Len(pages) + 1 < maxPages

\* shouldContinueCrawling with <= for <
ShouldContinueInclusive == Len(queue) > 0 /\ Len(pages) <= maxPages

\* private shouldContinueCrawling()
ShouldContinueCrawling == Len(queue) > 0 /\ Len(pages) < maxPages

\* this.queue.pop() for shift(): the back entry is taken
Pop(q) == [entry |-> q[Len(q)], rest |-> SubSeq(q, 1, Len(q) - 1)]

\* this.queue.shift(): the front entry and what is left
Shift(q) == [entry |-> Head(q), rest |-> Tail(q)]

\* private addToQueue(url, depth = 0)
AddToQueue(q, u, d) == Append(q, [url |-> u, depth |-> d])

\* addNewUrlsToQueue that gives the links the depth of their page
AddNewUrlsSameDepth(q, urls, d) ==
    q \o [i \in 1..Len(urls) |-> [url |-> urls[i], depth |-> d]]

\* addNewUrlsToQueue that leaves out the addresses already seen
AddNewUrlsUnseen(q, urls, d) ==
    LET new == SelectSeq(urls, LAMBDA u : u \notin seen)
    IN q \o [i \in 1..Len(new) |-> [url |-> new[i], depth |-> d + 1]]

\* addNewUrlsToQueue with unshift for push
AddNewUrlsToFront(q, urls, d) ==
    [i \in 1..Len(urls) |-> [url |-> urls[i], depth |-> d + 1]] \o q

\* private addNewUrlsToQueue(urls, depth)
AddNewUrlsToQueue(q, urls, d) ==
    q \o [i \in 1..Len(urls) |-> [url |-> urls[i], depth |-> d + 1]]

\* fetchPage without its catch clause
FetchPageUncaught(resp) == resp.kind = "throw"

\* fetchPage raises towards crawl: never, its catch clause takes every
\* failure of fetch and of response.text()
FetchPageThrows(resp) == FALSE

\* fetchPage whose catch clause returns the error message
FetchPageErrorText(resp) ==
    IF resp.kind = "throw" THEN [text |-> "text", hrefs |-> <<>>] ELSE resp.html

\* private fetchPage(url): the body of the response whatever its status, and
\* '' when fetch or response.text() raises
FetchPage(resp) == IF resp.kind = "throw" THEN EmptyHtml ELSE resp.html

\* private parseHtml(html): hrefs removed, the rest translated to markdown
ParseHtml(html) == html.text

\* the host root of an absolute address
RootOf(u) == IF u \in {RootH, PageH} THEN RootH ELSE RootG

\* new URL(href, baseUrl) raises TypeError
UrlThrows(href, base) ==
    \/ href = BadHref
    \/ href \notin Urls /\ base \notin Urls

\* new URL(href, baseUrl).href when it does not raise
UrlHref(href, base) == IF href \in Urls THEN href ELSE RootOf(base)

\* extractUrls raises: some anchor with a non-empty href does not resolve
ExtractThrows(html, base) ==
    \E i \in 1..Len(html.hrefs) :
        /\ html.hrefs[i] # EmptyHref
        /\ UrlThrows(html.hrefs[i], base)

RECURSIVE ResolveAll(_, _)
ResolveAll(hrefs, base) ==
    IF hrefs = <<>> THEN <<>>
    ELSE (IF Head(hrefs) = EmptyHref
          THEN <<>>
          ELSE <<UrlHref(Head(hrefs), base)>>) \o ResolveAll(Tail(hrefs), base)

\* private extractUrls(html, baseUrl) when it does not raise
ExtractUrls(html, base) == ResolveAll(html.hrefs, base)

(***************************************************************************)
(* The environment: anchors served so far.                                 *)
(***************************************************************************)
RECURSIVE SumAnchors(_)
SumAnchors(S) ==
    IF S = {} THEN 0
    ELSE LET u == CHOOSE x \in S : TRUE
         IN Len(web[u].html.hrefs) + SumAnchors(S \ {u})

AnchorsLeft == MaxAnchors - SumAnchors(Urls)

\* the web is fixed during a run: an address fetched again answers with the
\* body it answered with before
Again(w) ==
    IF w.kind = "throw" THEN {Thrown}
    ELSE [kind : {"ok", "non2xx"}, html : {w.html}]

\* the responses fetch(u) can settle with
Offered(u) ==
    IF web[u].kind = "none" THEN Responses(u, AnchorsLeft) ELSE Again(web[u])

\* a Crawler as its constructor leaves it, and a crawl call not yet made
NewCall(u, d, p) ==
    [pc |-> "start", url |-> "", depth |-> 0, startUrl |-> u,
     maxDepth |-> d, maxPages |-> p,
     seen |-> {}, pages |-> <<>>, queue |-> <<>>, pageDepth |-> <<>>]

\* no second invocation
NoOther == [NewCall("", 0, 0) EXCEPT !.pc = "never"]

\* an object without properties, and no response
Empty == <<>>

\* crawl is called directly: there is no request and seed does not run
NoRequest ==
    /\ handler = "none"
    /\ splitterOptions = Empty
    /\ splitter = Empty
    /\ documents = <<>>
    /\ pageIndex = 0
    /\ response = Empty

(***************************************************************************)
(* Init: a Crawler as constructed by seed(), crawl not yet called.         *)
(***************************************************************************)
Init ==
    /\ maxDepth \in 0..MaxDepthBound
    /\ maxPages \in 0..MaxPagesBound
    /\ seen = {}
    /\ pages = <<>>
    /\ queue = <<>>
    /\ startUrl \in StartUrls
    /\ pc = "start"
    /\ url = ""
    /\ depth = 0
    /\ web = [u \in Urls \cup {Invalid} |-> NotFetched]
    /\ status = "none"
    /\ pageDepth = <<>>
    /\ fetchLog = <<>>
    /\ sharing = "none"
    /\ active = 1
    /\ other = NoOther
    /\ NoRequest

(***************************************************************************)
(* crawl(startUrl) is called: the seed entry is queued.                    *)
(***************************************************************************)
Crawl ==
    /\ pc = "start"
    /\ queue' = AddToQueue(queue, startUrl, 0)
    /\ pc' = "loop"
    /\ UNCHANGED <<config, seen, pages, startUrl, url, depth, web, status,
                   pageDepth, fetchLog>>
    /\ UNCHANGED outside

(***************************************************************************)
(* One iteration that ends in `continue`: the front entry is dropped.      *)
(***************************************************************************)
Discard ==
    /\ pc = "loop"
    /\ ShouldContinueCrawling
    /\ LET e == Shift(queue).entry IN
        /\ IsTooDeep(e.depth) \/ IsAlreadySeen(e.url)
        /\ queue' = Shift(queue).rest
        /\ url' = e.url
        /\ depth' = e.depth
    /\ UNCHANGED <<config, seen, pages, startUrl, pc, web, status, pageDepth,
                   fetchLog>>
    /\ UNCHANGED outside

\* the iteration up to the await without this.seen.add(url)
VisitUnmarked ==
    /\ pc = "loop"
    /\ ShouldContinueCrawling
    /\ LET e == Shift(queue).entry IN
        /\ ~(IsTooDeep(e.depth) \/ IsAlreadySeen(e.url))
        /\ queue' = Shift(queue).rest
        /\ url' = e.url
        /\ depth' = e.depth
        /\ fetchLog' = Append(fetchLog, e.url)
    /\ pc' = "fetch"
    /\ UNCHANGED <<config, seen, pages, startUrl, web, status, pageDepth>>
    /\ UNCHANGED outside

(***************************************************************************)
(* One iteration up to the await: the front entry is taken, marked seen    *)
(* and fetch is called with its address.                                   *)
(***************************************************************************)
Visit ==
    /\ pc = "loop"
    /\ ShouldContinueCrawling
    /\ LET e == Shift(queue).entry IN
        /\ ~(IsTooDeep(e.depth) \/ IsAlreadySeen(e.url))
        /\ queue' = Shift(queue).rest
        /\ url' = e.url
        /\ depth' = e.depth
        /\ seen' = seen \cup {e.url}
        /\ fetchLog' = Append(fetchLog, e.url)
    /\ pc' = "fetch"
    /\ UNCHANGED <<config, pages, startUrl, web, status, pageDepth>>
    /\ UNCHANGED outside

(***************************************************************************)
(* The fetch settles and the iteration runs to its end: the page record is *)
(* pushed, the links are extracted and queued.  extractUrls may raise, and *)
(* then crawl rejects.                                                     *)
(***************************************************************************)
Resume(resp) ==
    LET html == FetchPage(resp) IN
    /\ web' = [web EXCEPT ![url] = Served(resp)]
    /\ status' = resp.kind
    /\ IF FetchPageThrows(resp)
       THEN /\ pc' = "threw"
            /\ UNCHANGED <<pages, pageDepth, queue>>
       ELSE /\ pages' = Append(pages, [url |-> url, content |-> ParseHtml(html)])
            /\ pageDepth' = Append(pageDepth, depth)
            /\ IF ExtractThrows(html, url)
               THEN /\ pc' = "threw"
                    /\ queue' = queue
               ELSE /\ pc' = "loop"
                    /\ queue' = AddNewUrlsToQueue(queue,
                                                  ExtractUrls(html, url), depth)
    /\ UNCHANGED <<config, seen, startUrl, url, depth, fetchLog>>
    /\ UNCHANGED outside

FetchSettles ==
    /\ pc = "fetch"
    /\ \E resp \in Offered(url) : Resume(resp)

(***************************************************************************)
(* The loop condition is false: crawl returns this.pages.                  *)
(***************************************************************************)
Return ==
    /\ pc = "loop"
    /\ ~ShouldContinueCrawling
    /\ pc' = "done"
    /\ UNCHANGED <<config, seen, pages, queue, startUrl, url, depth, web,
                   status, pageDepth, fetchLog>>
    /\ UNCHANGED outside

Next == Crawl \/ Discard \/ Visit \/ FetchSettles \/ Return

Spec == Init /\ [][Next]_vars

(***************************************************************************)
(* Two crawl invocations on the same Crawler.  JavaScript runs one of them *)
(* at a time and lets the other run only where the running one awaits its  *)
(* fetch or has ended; the two share seen, pages and queue.                *)
(***************************************************************************)
\* the start address of the second invocation
SecondStarts == {RootH, PageH}

SharedInit ==
    /\ maxDepth \in 0..MaxDepthBound
    /\ maxPages \in 0..MaxPagesBound
    /\ seen = {}
    /\ pages = <<>>
    /\ queue = <<>>
    /\ startUrl = RootH
    /\ pc = "start"
    /\ url = ""
    /\ depth = 0
    /\ web = [u \in Urls \cup {Invalid} |-> NotFetched]
    /\ status = "none"
    /\ pageDepth = <<>>
    /\ fetchLog = <<>>
    /\ sharing = "same"
    /\ active = 1
    /\ other \in {NewCall(u, maxDepth, maxPages) : u \in SecondStarts}
    /\ NoRequest

\* the running invocation awaits or has ended, and the other one is called
\* or resumed
Switch ==
    /\ sharing = "same"
    /\ pc \in {"fetch", "done", "threw"}
    /\ other.pc \in {"start", "fetch"}
    /\ active' = 3 - active
    /\ pc' = other.pc
    /\ url' = other.url
    /\ depth' = other.depth
    /\ startUrl' = other.startUrl
    /\ other' = [other EXCEPT !.pc = pc, !.url = url, !.depth = depth,
                              !.startUrl = startUrl]
    /\ UNCHANGED <<config, seen, pages, queue, pageDepth, web, status,
                   fetchLog, sharing, seedVars>>

SharedNext == Crawl \/ Discard \/ Visit \/ FetchSettles \/ Return \/ Switch

SharedSpec == SharedInit /\ [][SharedNext]_vars

(***************************************************************************)
(* Two crawls of the same web on separate Crawlers, one after the other:   *)
(* when the first has returned, a second Crawler is constructed with the   *)
(* same maxDepth and a smaller maxPages and crawls from the same address.  *)
(* `other` then keeps the first Crawler and its result.                    *)
(***************************************************************************)
PairInit ==
    /\ maxDepth \in 0..MaxDepthBound
    /\ maxPages \in 0..MaxPagesBound
    /\ seen = {}
    /\ pages = <<>>
    /\ queue = <<>>
    /\ startUrl = RootH
    /\ pc = "start"
    /\ url = ""
    /\ depth = 0
    /\ web = [u \in Urls \cup {Invalid} |-> NotFetched]
    /\ status = "none"
    /\ pageDepth = <<>>
    /\ fetchLog = <<>>
    /\ sharing = "separate"
    /\ active = 1
    /\ other = NewCall(startUrl, maxDepth, 0)
    /\ NoRequest

NextCrawler ==
    /\ sharing = "separate"
    /\ pc = "done"
    /\ other.pc = "start"
    /\ \E p \in 0..(maxPages - 1) :
         LET new == NewCall(other.startUrl, other.maxDepth, p) IN
         /\ maxDepth' = new.maxDepth
         /\ maxPages' = new.maxPages
         /\ seen' = new.seen
         /\ pages' = new.pages
         /\ queue' = new.queue
         /\ pageDepth' = new.pageDepth
         /\ pc' = new.pc
         /\ url' = new.url
         /\ depth' = new.depth
         /\ startUrl' = new.startUrl
    /\ active' = 2
    /\ status' = "none"
    /\ other' = [pc |-> pc, url |-> url, depth |-> depth,
                 startUrl |-> startUrl,
                 maxDepth |-> maxDepth, maxPages |-> maxPages,
                 seen |-> seen, pages |-> pages, queue |-> queue,
                 pageDepth |-> pageDepth]
    /\ UNCHANGED <<web, fetchLog, sharing, seedVars>>

PairNext == Crawl \/ Discard \/ Visit \/ FetchSettles \/ Return \/ NextCrawler

PairSpec == PairInit /\ [][PairNext]_vars

(***************************************************************************)
(* The service boundary: POST(req) calls seed, seed constructs a Crawler,  *)
(* awaits its crawl, constructs the splitter and splits each page.         *)
(***************************************************************************)
crawlVars == <<maxDepth, maxPages, seen, pages, queue, startUrl, pc, url,
               depth, web, status, pageDepth, fetchLog>>

pairVars == <<sharing, active, other>>

\* { ...defaults, ...given }: the properties of given before those of defaults
Merge(defaults, given) == given @@ defaults

\* maxDepth = 2, maxPages = 1 for the arguments the caller leaves undefined
SeedDefaults == [maxDepth |-> 2, maxPages |-> 1]

\* the options objects a request carries: each limit given or left out
CrawlOptions ==
    {d @@ p : d \in {Empty} \cup [maxDepth : 0..MaxDepthBound],
              p \in {Empty} \cup [maxPages : 0..MaxPagesBound]}

\* the splitter parameters seed writes before ...splitterOptions
SplitterDefaults == [chunkSize |-> 1000, chunkOverlap |-> 200]

ChunkSizes == {3, 100}

ChunkOverlaps == {1}

\* the splitterOptions objects a request carries: each field given or left out
SplitterOptionSets ==
    {c @@ o : c \in {Empty} \cup [chunkSize : ChunkSizes],
              o \in {Empty} \cup [chunkOverlap : ChunkOverlaps]}

\* new RecursiveCharacterTextSplitter(params) raises: the splitter accepts
\* only chunk configurations with chunkOverlap < chunkSize
SplitterThrows(params) == params.chunkOverlap >= params.chunkSize

\* the characters of a page text
Chars(text) == IF text = "" THEN <<>> ELSE <<"t", "e", "x", "t">>

\* the chunks of chars from position from on: at most chunkSize characters
\* each, a chunk starting chunkSize - chunkOverlap after the one before
RECURSIVE Windows(_, _, _)
Windows(chars, from, params) ==
    LET last == from + params.chunkSize - 1 IN
    IF last >= Len(chars)
    THEN <<SubSeq(chars, from, Len(chars))>>
    ELSE <<SubSeq(chars, from, last)>>
         \o Windows(chars, from + params.chunkSize - params.chunkOverlap, params)

\* splitter.splitText(text): no chunk for the empty text
SplitText(text, params) ==
    IF text = "" THEN <<>> ELSE Windows(Chars(text), 1, params)

\* { success: false, error: "Failed crawling" }
Failure == [success |-> FALSE, error |-> "Failed crawling"]

\* a request has arrived; nothing of seed exists yet
SeedInit ==
    /\ maxDepth = 0
    /\ maxPages = 0
    /\ seen = {}
    /\ pages = <<>>
    /\ queue = <<>>
    /\ startUrl = ""
    /\ pc = "idle"
    /\ url = ""
    /\ depth = 0
    /\ web = [u \in Urls \cup {Invalid} |-> NotFetched]
    /\ status = "none"
    /\ pageDepth = <<>>
    /\ fetchLog = <<>>
    /\ sharing = "none"
    /\ active = 1
    /\ other = NoOther
    /\ handler = "received"
    /\ splitterOptions = Empty
    /\ splitter = Empty
    /\ documents = <<>>
    /\ pageIndex = 0
    /\ response = Empty

\* await req.json() rejects: the body is not JSON.  The await stands before
\* the try block, so POST rejects.
PostBodyFails ==
    /\ handler = "received"
    /\ handler' = "escaped"
    /\ UNCHANGED <<splitterOptions, splitter, documents, pageIndex, response>>
    /\ UNCHANGED <<crawlVars, pairVars>>

\* the body has no options object: options.maxDepth raises inside the try
\* block and the catch clause answers
PostNoOptions ==
    /\ handler = "received"
    /\ handler' = "responded"
    /\ response' = Failure
    /\ UNCHANGED <<splitterOptions, splitter, documents, pageIndex>>
    /\ UNCHANGED <<crawlVars, pairVars>>

\* seed(url, options.maxDepth, options.maxPages, options.splitterOptions)
\* is called and constructs its Crawler
PostSeed ==
    /\ handler = "received"
    /\ \E u \in StartUrls, options \in CrawlOptions :
         LET args == Merge(SeedDefaults, options) IN
         /\ startUrl' = u
         /\ maxDepth' = args.maxDepth
         /\ maxPages' = args.maxPages
    /\ pc' = "start"
    /\ handler' = "crawl"
    /\ UNCHANGED <<seen, pages, queue, url, depth, web, status, pageDepth,
                   fetchLog>>
    /\ UNCHANGED <<splitterOptions, splitter, documents, pageIndex, response>>
    /\ UNCHANGED pairVars

\* crawl rejected: seed rejects and the catch clause of POST answers
PostCatch ==
    /\ handler = "crawl"
    /\ pc = "threw"
    /\ handler' = "responded"
    /\ response' = Failure
    /\ UNCHANGED <<splitterOptions, splitter, documents, pageIndex>>
    /\ UNCHANGED <<crawlVars, pairVars>>

\* crawl returned: the splitter is constructed from the defaults and the
\* caller's splitterOptions; when the constructor raises, seed rejects and
\* the catch clause of POST answers
NewSplitter ==
    /\ handler = "crawl"
    /\ pc = "done"
    /\ \E given \in SplitterOptionSets :
         /\ splitterOptions' = given
         /\ splitter' = Merge(SplitterDefaults, given)
    /\ IF SplitterThrows(splitter')
       THEN /\ handler' = "responded"
            /\ response' = Failure
       ELSE /\ handler' = "split"
            /\ response' = response
    /\ documents' = <<>>
    /\ pageIndex' = 0
    /\ UNCHANGED <<crawlVars, pairVars>>

\* the loop body with every chunk record given the address of the first page
SplitPageFirstUrl ==
    /\ handler = "split"
    /\ pageIndex < Len(pages)
    /\ LET page == pages[pageIndex + 1]
           chunks == SplitText(page.content, splitter)
       IN documents' = documents \o
              [i \in 1..Len(chunks) |->
                  [url |-> pages[1].url, content |-> chunks[i]]]
    /\ pageIndex' = pageIndex + 1
    /\ UNCHANGED <<handler, splitterOptions, splitter, response>>
    /\ UNCHANGED <<crawlVars, pairVars>>

\* one iteration of for (const page of pages): the chunks of the page are
\* pushed in order, each with the address of the page
SplitPage ==
    /\ handler = "split"
    /\ pageIndex < Len(pages)
    /\ LET page == pages[pageIndex + 1]
           chunks == SplitText(page.content, splitter)
       IN documents' = documents \o
              [i \in 1..Len(chunks) |->
                  [url |-> page.url, content |-> chunks[i]]]
    /\ pageIndex' = pageIndex + 1
    /\ UNCHANGED <<handler, splitterOptions, splitter, response>>
    /\ UNCHANGED <<crawlVars, pairVars>>

\* the loop is over: seed returns documents and POST answers with them
PostSuccess ==
    /\ handler = "split"
    /\ pageIndex = Len(pages)
    /\ handler' = "responded"
    /\ response' = [success |-> TRUE, documents |-> documents]
    /\ UNCHANGED <<splitterOptions, splitter, documents, pageIndex>>
    /\ UNCHANGED <<crawlVars, pairVars>>

SeedNext ==
    \/ PostBodyFails \/ PostNoOptions \/ PostSeed
    \/ Crawl \/ Discard \/ Visit \/ FetchSettles \/ Return
    \/ PostCatch \/ NewSplitter \/ SplitPage \/ PostSuccess

SeedSpec == SeedInit /\ [][SeedNext]_vars

\* every step of crawl is taken once it can be: the synchronous parts run to
\* the next await, and every fetch settles
FairSpec == Spec /\ WF_vars(Next)

(***************************************************************************)
(* The link graph the crawl has seen: the addresses extracted from the     *)
(* page served at u, and the addresses within n link hops of the start.    *)
(***************************************************************************)
Range(f) == {f[i] : i \in DOMAIN f}

Links(u) ==
    IF web[u].kind = "none" \/ ExtractThrows(FetchPage(web[u]), u)
    THEN {}
    ELSE Range(ExtractUrls(FetchPage(web[u]), u))

RECURSIVE ReachIn(_, _)
ReachIn(edges, n) ==
    IF n = 0 THEN {startUrl}
    ELSE LET R == ReachIn(edges, n - 1)
         IN R \cup UNION {edges[u] : u \in R}

ReachWithin(n) == ReachIn([u \in DOMAIN web |-> Links(u)], n)

Ended == pc \in {"done", "threw"}

(***************************************************************************)
(* C1: at every moment of a crawl, and in the sequence it returns, the     *)
(* number of page records is at most maxPages.                             *)
(***************************************************************************)
C1_PageBound == Len(pages) <= maxPages

\* the crawl returned because the limit was reached, with entries left
C1_Witness ==
    pc = "done" /\ maxPages >= 2 /\ Len(pages) = maxPages /\ Len(queue) > 0

(***************************************************************************)
(* C2: no address appears twice in the page records, whatever cycles,      *)
(* self-links and repeated links the web has.                              *)
(***************************************************************************)
C2_NoDuplicate ==
    \A i, j \in 1..Len(pages) : i # j => pages[i].url # pages[j].url

\* a finished crawl of a self-linking start page and a page linking back
C2_Witness ==
    /\ pc = "done"
    /\ Len(pages) >= 2
    /\ startUrl \in Links(startUrl)
    /\ \E u \in Urls \ {startUrl} : startUrl \in Links(u) /\ u \in Links(startUrl)

(***************************************************************************)
(* C3: every page record was dequeued at a depth of at most maxDepth and   *)
(* its address is within maxDepth link hops of the start address, through  *)
(* pages fetched in this crawl.                                            *)
(***************************************************************************)
C3_DepthBound ==
    LET R == ReachWithin(maxDepth)
    IN \A i \in 1..Len(pages) :
           /\ pageDepth[i] <= maxDepth
           /\ pages[i].url \in R

\* the entry dequeued last was too deep and its address was never fetched
C3_Witness ==
    /\ pc = "done"
    /\ maxDepth = 1
    /\ Len(pages) = 2
    /\ Len(pages) < maxPages
    /\ depth = 2
    /\ url \notin seen

(***************************************************************************)
(* C4: the page records are in breadth-first order: a record never comes   *)
(* before a record that was dequeued at a smaller depth.                   *)
(***************************************************************************)
C4_BreadthFirst ==
    \A i, j \in 1..Len(pages) : i < j => pageDepth[i] <= pageDepth[j]

\* two pages of depth 1 were recorded before a page of depth 2
C4_Witness == pc = "done" /\ pageDepth = <<0, 1, 1, 2>>

(***************************************************************************)
(* C5: when the fetch of a dequeued address raises, the crawl goes on:     *)
(* exactly one record with that address and empty text is appended, the    *)
(* frontier gets no entry, and the loop continues.                         *)
(***************************************************************************)
C5_FetchFailure ==
    [][(pc = "fetch" /\ pc' # "fetch" /\ status' = "throw")
         => /\ pc' = "loop"
            /\ pages' = Append(pages, [url |-> url, content |-> ""])
            /\ queue' = queue]_vars

\* the second fetch failed, its record is empty, and a third page followed
C5_Witness ==
    /\ Len(pages) = 3
    /\ web[pages[2].url].kind = "throw"
    /\ pages[2].content = ""
    /\ web[pages[3].url].kind = "body"

(***************************************************************************)
(* C6: a fetch that ends with a non-2xx response is a fetch failure: the   *)
(* record of its address has empty text and its body yields no frontier    *)
(* entry.                                                                  *)
(***************************************************************************)
C6_Non2xxIsFailure ==
    [][(pc = "fetch" /\ pc' # "fetch" /\ status' = "non2xx")
         => /\ pages' = Append(pages, [url |-> url, content |-> ""])
            /\ queue' = queue]_vars

(***************************************************************************)
(* C7: crawl never raises, whatever the markup of the fetched pages, and   *)
(* so always returns the records it accumulated.                           *)
(***************************************************************************)
C7_NeverRaises == pc # "threw"

(***************************************************************************)
(* C8 as stated: with an invalid start address (and a page limit of at     *)
(* least one, as the configuration requires) crawl fails towards its       *)
(* caller and returns no page records.                                     *)
(***************************************************************************)
C8_InvalidStartFails ==
    (startUrl = Invalid /\ maxPages >= 1 /\ Ended) => pc = "threw"

(***************************************************************************)
(* C8 as amended: an invalid start address is a fetch failure like any     *)
(* other.  crawl does not raise; it returns one record with the start      *)
(* string and empty text, or no record when maxPages is 0.                 *)
(***************************************************************************)
C8_InvalidStartIsFetchFailure ==
    startUrl = Invalid =>
        /\ pc # "threw"
        /\ pc = "done" =>
              pages = IF maxPages = 0
                      THEN <<>>
                      ELSE <<[url |-> Invalid, content |-> ""]>>

\* crawl returned the empty record of the invalid start address
C8_Witness ==
    /\ startUrl = Invalid
    /\ pc = "done"
    /\ status = "throw"
    /\ pages = <<[url |-> Invalid, content |-> ""]>>

(***************************************************************************)
(* C9: when the crawl has ended, the frontier is empty or the number of    *)
(* page records equals maxPages.  (That it ends is Termination below.)     *)
(***************************************************************************)
C9_StopsAtBound == Ended => (Len(queue) = 0 \/ Len(pages) = maxPages)

\* every crawl ends, by returning or by raising
Termination == <>Ended

\* a crawl that returns has an empty frontier or maxPages records
ReturnsAtBound == pc = "done" => (Len(queue) = 0 \/ Len(pages) = maxPages)

(***************************************************************************)
(* C10: with maxPages = 0 the crawl has no page record and calls fetch     *)
(* never, not even for the start address.                                  *)
(***************************************************************************)
C10_ZeroPages ==
    maxPages = 0 =>
        /\ pages = <<>>
        /\ fetchLog = <<>>
        /\ pc \in {"start", "loop", "done"}

\* crawl returned with the start entry still queued
C10_Witness ==
    /\ maxPages = 0
    /\ pc = "done"
    /\ queue = <<[url |-> startUrl, depth |-> 0]>>
    /\ pages = <<>>

(***************************************************************************)
(* C11: with maxDepth = 0 only the start address is ever fetched and       *)
(* recorded: a crawl that returns with maxPages >= 1 returns exactly the   *)
(* record of the start address, and every link found on the start page     *)
(* sits in the frontier at depth 1 > 0 until it is discarded.              *)
(***************************************************************************)
C11_DepthZero ==
    maxDepth = 0 =>
        /\ \A i \in 1..Len(fetchLog) : i = 1 /\ fetchLog[i] = startUrl
        /\ \A i \in 1..Len(pages) : i = 1 /\ pages[i].url = startUrl
        /\ (pc = "done" /\ maxPages >= 1) => Len(pages) = 1
        /\ pc \in {"fetch", "loop", "done"} /\ Len(fetchLog) = 1 =>
              \A i \in 1..Len(queue) : queue[i].depth = 1

\* the start page had three links, all were dequeued and none was fetched
C11_Witness ==
    /\ maxDepth = 0
    /\ maxPages >= 2
    /\ pc = "done"
    /\ Len(web[startUrl].html.hrefs) = 3
    /\ Cardinality(Links(startUrl) \ {startUrl}) >= 2
    /\ queue = <<>>
    /\ Len(pages) = 1

(***************************************************************************)
(* C17: an address enters the seen set once, before fetch is called for    *)
(* it; fetch is called at most once per address, whether it then succeeds  *)
(* or fails; an entry whose address is already seen is dropped at dequeue  *)
(* with no fetch and no page record.                                       *)
(***************************************************************************)
C17_SeenOnce ==
    /\ [](/\ \A i, j \in 1..Len(fetchLog) : i # j => fetchLog[i] # fetchLog[j]
          /\ seen = Range(fetchLog)
          /\ pc = "fetch" => url \in seen)
    /\ [][(seen' # seen =>
              /\ Len(queue) > 0
              /\ Head(queue).url \notin seen
              /\ seen' = seen \cup {Head(queue).url}
              /\ fetchLog' = Append(fetchLog, Head(queue).url)
              /\ web[Head(queue).url].kind = "none"
              /\ pc' = "fetch")
           /\
           ((pc = "loop" /\ queue' # queue /\ Head(queue).url \in seen) =>
              /\ queue' = Tail(queue)
              /\ UNCHANGED <<seen, pages, fetchLog, web, pc>>)]_vars

\* a fetch failed, and a later entry for the same address was dropped
C17_Witness ==
    /\ pc = "loop"
    /\ url \in seen
    /\ web[url].kind = "throw"
    /\ depth <= maxDepth
    /\ pages[Len(pages)].url # url
    /\ Len(fetchLog) = Len(pages)

(***************************************************************************)
(* C18: when a page dequeued at depth d has been processed and k links     *)
(* were extracted from it, the frontier is the old frontier followed by    *)
(* exactly those k links in extraction order, each at depth d + 1, with    *)
(* seen links, repeated links and links deeper than maxDepth included;     *)
(* the seen set is unchanged and the result grew by the page's record only.*)
(***************************************************************************)
C18_EnqueueAll ==
    [][(pc = "fetch" /\ pc' = "loop") =>
          LET links == ExtractUrls(web'[url].html, url)
              k == Len(links)
          IN /\ Len(queue') = Len(queue) + k
             /\ SubSeq(queue', 1, Len(queue)) = queue
             /\ \A i \in 1..k :
                    queue'[Len(queue) + i] = [url |-> links[i], depth |-> depth + 1]
             /\ seen' = seen
             /\ Len(pages') = Len(pages) + 1
             /\ SubSeq(pages', 1, Len(pages)) = pages]_vars

\* the frontier holds a seen address, twice another one, all too deep
C18_Witness ==
    /\ pc = "loop"
    /\ Len(queue) = 3
    /\ queue[1].url \in seen
    /\ queue[2].url \notin seen
    /\ queue[2] = queue[3]
    /\ queue[1].depth > maxDepth

(***************************************************************************)
(* C19: at every loop head of a crawl the depths of the frontier entries   *)
(* do not decrease from front to back, the last is at most one more than   *)
(* the first, and none is below the depth of the page recorded last.       *)
(***************************************************************************)
C19_FrontierOrder ==
    pc = "loop" =>
        /\ \A i, j \in 1..Len(queue) : i < j => queue[i].depth <= queue[j].depth
        /\ Len(queue) > 0 => queue[Len(queue)].depth <= queue[1].depth + 1
        /\ Len(pages) > 0 =>
              \A i \in 1..Len(queue) : queue[i].depth >= pageDepth[Len(pages)]

\* a loop head with entries of two depths behind a page of the lower one
C19_Witness ==
    /\ pc = "loop"
    /\ Len(queue) = 2
    /\ queue[1].depth = 1
    /\ queue[2].depth = 2
    /\ pageDepth = <<0, 1>>

(***************************************************************************)
(* C12: maxPages truncates the visitation order.  When a crawl with a      *)
(* smaller maxPages has returned on the web an earlier crawl of the same   *)
(* start address and maxDepth has returned on, its result is the first     *)
(* maxPages records of the earlier result (all of them when there are      *)
(* fewer).  And a crawl with maxPages = 2 and maxDepth >= 1 whose start    *)
(* page has three distinct links, none to itself, returns the start page   *)
(* and then the page of the first link.                                    *)
(***************************************************************************)
Min(a, b) == IF a < b THEN a ELSE b

\* the addresses of the anchors of the page served at u
Anchors(u) == ExtractUrls(FetchPage(web[u]), u)

C12_Truncation ==
    /\ (active = 2 /\ pc = "done") =>
            pages = SubSeq(other.pages, 1, Min(maxPages, Len(other.pages)))
    /\ (/\ pc = "done"
        /\ maxPages = 2
        /\ maxDepth >= 1
        /\ web[startUrl].kind = "body"
        /\ Len(web[startUrl].html.hrefs) = 3
        /\ Cardinality(Links(startUrl) \ {startUrl}) = 3) =>
            /\ Len(pages) = 2
            /\ pages[1].url = startUrl
            /\ pages[2].url = Anchors(startUrl)[1]

\* the earlier crawl returned three pages and the later one, limited to two,
\* has returned
C12_Witness ==
    /\ active = 2
    /\ pc = "done"
    /\ maxPages = 2
    /\ Len(other.pages) = 3
    /\ Len(other.queue) > 0

(***************************************************************************)
(* C14: two crawl invocations on the same Crawler that overlap at their    *)
(* fetch suspension points are independent: the sequence an invocation     *)
(* returns has at most maxPages records, as it has when run alone.         *)
(***************************************************************************)
C14_Independent ==
    (sharing = "same" /\ pc = "done") => Len(pages) <= maxPages

(***************************************************************************)
(* C16: every call of crawl(startUrl), a second call on the same Crawler   *)
(* included, starts from frontier = [(startUrl, 0)], seen = {} and         *)
(* results = [].                                                           *)
(***************************************************************************)
C16_FreshStart ==
    [][(pc = "start" /\ pc' = "loop") =>
          /\ queue' = <<[url |-> startUrl, depth |-> 0]>>
          /\ seen' = {}
          /\ pages' = <<>>]_vars

(***************************************************************************)
(* C13: the documents seed returns are, page by page in the order of the   *)
(* crawl result, the chunks of the page in the order splitText returned    *)
(* them, each with the address of its page: every record belongs to a      *)
(* page, records of an earlier page stand before those of a later one, and *)
(* the records of one page hold exactly its chunks, none when its text     *)
(* yields no chunk.                                                        *)
(***************************************************************************)
\* the position in the crawl result of the page with address u
PageNo(u) == CHOOSE k \in 1..Len(pages) : pages[k].url = u

\* the chunk texts of the records with address u, in order
ContentsFor(out, u) ==
    LET own == SelectSeq(out, LAMBDA d : d.url = u)
    IN [i \in 1..Len(own) |-> own[i].content]

C13_Concatenation ==
    (handler = "responded" /\ response.success) =>
        LET out == response.documents IN
        /\ \A i \in 1..Len(out) : \E k \in 1..Len(pages) : out[i].url = pages[k].url
        /\ \A i, j \in 1..Len(out) :
              i < j => PageNo(out[i].url) <= PageNo(out[j].url)
        /\ \A k \in 1..Len(pages) :
              ContentsFor(out, pages[k].url) = SplitText(pages[k].content, splitter)

\* three pages, the second without text, the others split into two chunks
C13_Witness ==
    /\ handler = "responded"
    /\ response.success
    /\ Len(pages) = 3
    /\ pages[2].content = ""
    /\ Len(response.documents) = 4
    /\ response.documents[2].url = pages[1].url
    /\ response.documents[3].url = pages[3].url

(***************************************************************************)
(* C15: every POST request is answered, with {success: true, documents}    *)
(* or with {success: false, error: "Failed crawling"}; no failure escapes  *)
(* the handler, whether the body cannot be parsed, the options object is   *)
(* missing or seed fails.                                                  *)
(***************************************************************************)
C15_AlwaysAnswered ==
    /\ handler # "escaped"
    /\ handler = "responded" =>
          \/ response = Failure
          \/ response.success /\ DOMAIN response = {"success", "documents"}

(***************************************************************************)
(* C20: when the caller's splitterOptions give only chunkSize, with a      *)
(* value > 0, or only chunkOverlap, with a value >= 0, the parameters the  *)
(* splitter is constructed with satisfy 0 <= chunkOverlap < chunkSize and  *)
(* seed does not fail after the crawl has returned its pages.              *)
(***************************************************************************)
OneValidField(given) ==
    \/ DOMAIN given = {"chunkSize"} /\ given.chunkSize > 0
    \/ DOMAIN given = {"chunkOverlap"} /\ given.chunkOverlap >= 0

C20_ValidChunkConfig ==
    (DOMAIN splitter # {} /\ OneValidField(splitterOptions)
                          /\ Len(pages) >= 1) =>
        /\ 0 <= splitter.chunkOverlap
        /\ splitter.chunkOverlap < splitter.chunkSize
        /\ response # Failure

=============================================================================
